---- MODULE Spec2Model ----
(***************************************************************************)
(* Alarm state observation of the ExpoAlarmKit native module               *)
(* (plans/006-observe-state-changes.md): the observation session           *)
(* (startAlarmObservation / stopAlarmObservation), the tick handler        *)
(* (handleAlarmListChanged) and the snapshot comparison                    *)
(* (detectStateChanges) with the events they hand to sendEvent.            *)
(* Spec runs the handler as one step, SpecInterleaved statement by         *)
(* statement next to the calls made from JavaScript, SpecDiff and          *)
(* SpecDuplicates give one tick any pair of lists.                         *)
(***************************************************************************)
EXTENDS Integers, Sequences, FiniteSets, TLC

\* ------------------------------------------------------------- bounds ----
MaxId == 2          \* alarm ids are 1..MaxId
MaxStartCalls == 3  \* cap on the number of startObserving calls
MaxClock == 2       \* the clock readings are 0..MaxClock
MaxCalls == 3       \* cap on the number of calls made to the JavaScript wrapper

Ids == 1..MaxId

\* ------------------------------------------------------------ alarms -----
\* Alarm.State cases (type AlarmState of the plans).
AlarmStateCases == {".scheduled", ".running", ".completed", ".cancelled"}

\* "\(alarm.state)": string interpolation of an enum case gives its name.
describeState(s) ==
    CASE s = ".scheduled" -> "scheduled"
      [] s = ".running"   -> "running"
      [] s = ".completed" -> "completed"
      [] s = ".cancelled" -> "cancelled"

\* id.uuidString
uuidString(id) == <<"uuid", id>>

FireDates == {10}
\* Alarm.Schedule: .fixed(date), or a schedule without a fixed date.
Schedules == {[kind |-> "relative"]} \cup {[kind |-> "fixed", date |-> d] : d \in FireDates}

AlarmsWithId(i) ==
    {[id |-> i, state |-> s, schedule |-> sc] : s \in AlarmStateCases, sc \in Schedules}

\* The [Alarm] arrays with unique ids, listed by ascending id.
RECURSIVE SnapshotsFrom(_)
SnapshotsFrom(i) ==
    IF i > MaxId THEN {<<>>}
    ELSE LET rest == SnapshotsFrom(i + 1)
         IN  rest \cup {<<a>> \o r : a \in AlarmsWithId(i), r \in rest}

Snapshots == SnapshotsFrom(1)

IdsOf(list) == {list[i].id : i \in DOMAIN list}

\* --------------------------------------------------------- variables -----
VARIABLES
    alarms,           \* AlarmManager.shared.alarms, the Authority's list
    available,        \* #available(iOS 26.0, *)
    isObserving,      \* private var isObserving
    alarmObserver,    \* private var alarmObserver: AnyCancellable?
    lastKnownAlarms,  \* private var lastKnownAlarms: [Alarm]
    previousAlarms,   \* let previousAlarms of the latest handleAlarmListChanged
    sent,             \* the sendEvent calls of the latest handleAlarmListChanged, in order
    sinks,            \* live sink subscriptions on AlarmManager.shared.$alarms
    sinkCalls,        \* number of .sink subscriptions made so far
    startCalls,       \* number of startObserving calls made so far
    ticks,            \* handleAlarmListChanged runs since the latest start or stop: 0, 1, 2 (= more)
    crashed,          \* the process trapped (Dictionary(uniqueKeysWithValues:) on a duplicate id)
    deallocated,      \* deinit has run
    clock,            \* Date().timeIntervalSince1970
    pc,               \* the statement a running handleAlarmListChanged is at, or "idle"
    currentList,      \* its parameter currentAlarms
    toSend,           \* the events its detectStateChanges has still to send
    promise,          \* how the Promise of the latest AsyncFunction call was settled
    observing,        \* ExpoAlarmManager: private observing
    calls,            \* the calls made to ExpoAlarmManager.startObserving / stopObserving
    fromSink,         \* the sink whose closure called the running handleAlarmListChanged
    parked,           \* a second handleAlarmListChanged call, on another thread: position and locals
    announced,        \* history: the ids sent in an alarmAdded and in no alarmRemoved since
    hook,             \* useAlarmObserver: one instance of the hook
    listeners,        \* AlarmKitNative.addListener: the number of listeners held per event name
    authorizationState, \* AlarmManager.shared.authorizationState
    requested         \* the latest AsyncFunction call has called requestAuthorization()

vars == <<alarms, available, isObserving, alarmObserver, lastKnownAlarms,
          previousAlarms, sent, sinks, sinkCalls, startCalls, ticks, crashed,
          deallocated, clock, pc, currentList, toSend, promise, observing, calls,
          fromSink, parked, announced, hook, listeners, authorizationState,
          requested>>

\* The state of the JavaScript side: the wrapper, the hook and the listeners.
js == <<observing, calls, hook, listeners>>

\* The hook and the listeners.
react == <<hook, listeners>>

\* The authorization the Authority holds, and whether it was asked for.
authority == <<authorizationState, requested>>

\* The handler's position and locals.
inFlight == <<pc, currentList, toSend>>

\* The handler calls as threads run them.
threads == <<fromSink, parked>>

\* No second handleAlarmListChanged call.
NoCall ==
    [pc |-> "idle", currentList |-> <<>>, toSend |-> <<>>, previousAlarms |-> <<>>,
     fromSink |-> 0]

\* The native module and the Authority, without the process and the promise.
session == <<alarms, available, isObserving, alarmObserver, lastKnownAlarms,
             previousAlarms, sent, sinks, sinkCalls, startCalls, ticks,
             deallocated, clock, inFlight>>

\* Promise: not settled, promise.resolve(value), promise.reject(error)
Unsettled == [state |-> "none"]
Resolved(value) == [state |-> "resolved", value |-> value]
Rejected(error) == [state |-> "rejected", error |-> error]

\* A call to the wrapper: not made yet, or the method and where it stands.
NotCalled == [op |-> "none", at |-> "none"]

\* AlarmManager.AuthorizationState; ".future" stands for a case a later SDK
\* adds (@unknown default).
AuthorizationStates == {".authorized", ".denied", ".notDetermined", ".future"}

\* The event names ExpoAlarmManager offers a listener for (onAlarm...).
ListenerNames ==
    {"alarmStateChanged", "alarmListChanged", "alarmFired", "alarmAdded", "alarmRemoved"}

NoListeners == [name \in ListenerNames |-> 0]

\* useAlarmObserver after the first render of a mounted component:
\* useState(false), and both effects have run with isObserving = false.
\*   update         the value a setIsObserving call has queued, if any
\*   subscriptions  let subscriptions of the latest run of the first effect
\*   callbacks      the calls made by the hook's startObserving / stopObserving
\*                  that have not reached their end
FirstRender ==
    [mounted |-> TRUE, isObserving |-> FALSE, update |-> <<>>, subscriptions |-> <<>>,
     callbacks |-> {}]

\* AnyCancellable?: nil, or one handle
Nil == <<>>
Some(handle) == <<handle>>

\* ------------------------------------------------------------ events -----
\* sendEvent(name, payload)
Event(name, payload) == [name |-> name, payload |-> payload]

serializeAlarm(alarm) ==
    LET dict == [id |-> uuidString(alarm.id), state |-> describeState(alarm.state)]
    IN  IF alarm.schedule.kind = "fixed"
        THEN dict @@ [fireDate |-> alarm.schedule.date]
        ELSE dict

\* Variant: the state the alarm has left is tested, not the one it has entered.
sendAlarmStateChangedEvent_TestsPrevious(alarm, previousState, newState, now) ==
    LET eventData == [previousState |-> previousState, newState |-> newState,
                      timestamp |-> now] @@ serializeAlarm(alarm)
    IN  <<Event("alarmStateChanged", eventData)>>
        \o (IF previousState = "running" THEN <<Event("alarmFired", eventData)>> ELSE <<>>)

\* The events sendAlarmStateChangedEvent sends, in order.
sendAlarmStateChangedEvent(alarm, previousState, newState, now) ==
    LET eventData == [previousState |-> previousState, newState |-> newState,
                      timestamp |-> now] @@ serializeAlarm(alarm)
    IN  <<Event("alarmStateChanged", eventData)>>
        \o (IF newState = "running" THEN <<Event("alarmFired", eventData)>> ELSE <<>>)

\* Dictionary(uniqueKeysWithValues:) traps on a repeated key.
HasDuplicateKeys(list) == \E i, j \in DOMAIN list : i # j /\ list[i].id = list[j].id

DictionaryOf(list) ==
    [id \in IdsOf(list) |-> list[CHOOSE i \in DOMAIN list : list[i].id = id]]

\* The orders in which a Dictionary with key set S may be iterated.
RECURSIVE Orders(_)
Orders(S) ==
    IF S = {} THEN {<<>>}
    ELSE UNION {{<<id>> \o rest : rest \in Orders(S \ {id})} : id \in S}

\* Variant: the else branch that reports a new alarm is missing.
RECURSIVE CheckCurrent_NoAdded(_, _, _, _)
CheckCurrent_NoAdded(order, previousDict, currentDict, now) ==
    IF order = <<>> THEN <<>>
    ELSE LET id == Head(order)
             currentAlarm == currentDict[id]
             out == IF id \in DOMAIN previousDict /\ previousDict[id].state # currentAlarm.state
                    THEN sendAlarmStateChangedEvent(currentAlarm,
                             describeState(previousDict[id].state),
                             describeState(currentAlarm.state), now)
                    ELSE <<>>
         IN  out \o CheckCurrent_NoAdded(Tail(order), previousDict, currentDict, now)

\* Variant: the whole alarm is compared (previousAlarm != currentAlarm), not its state.
RECURSIVE CheckCurrent_ComparesAlarm(_, _, _, _)
CheckCurrent_ComparesAlarm(order, previousDict, currentDict, now) ==
    IF order = <<>> THEN <<>>
    ELSE LET id == Head(order)
             currentAlarm == currentDict[id]
             out == IF id \in DOMAIN previousDict
                    THEN IF previousDict[id] # currentAlarm
                         THEN sendAlarmStateChangedEvent(currentAlarm,
                                  describeState(previousDict[id].state),
                                  describeState(currentAlarm.state), now)
                         ELSE <<>>
                    ELSE <<Event("alarmAdded", serializeAlarm(currentAlarm))>>
         IN  out \o CheckCurrent_ComparesAlarm(Tail(order), previousDict, currentDict, now)

\* Variant: the state comparison is inverted (== for !=).
RECURSIVE CheckCurrent_Inverted(_, _, _, _)
CheckCurrent_Inverted(order, previousDict, currentDict, now) ==
    IF order = <<>> THEN <<>>
    ELSE LET id == Head(order)
             currentAlarm == currentDict[id]
             out == IF id \in DOMAIN previousDict
                    THEN IF previousDict[id].state = currentAlarm.state
                         THEN sendAlarmStateChangedEvent(currentAlarm,
                                  describeState(previousDict[id].state),
                                  describeState(currentAlarm.state), now)
                         ELSE <<>>
                    ELSE <<Event("alarmAdded", serializeAlarm(currentAlarm))>>
         IN  out \o CheckCurrent_Inverted(Tail(order), previousDict, currentDict, now)

\* Variant: the loop ends (break) after the first alarm that sends an event.
RECURSIVE CheckCurrent_Breaks(_, _, _, _)
CheckCurrent_Breaks(order, previousDict, currentDict, now) ==
    IF order = <<>> THEN <<>>
    ELSE LET id == Head(order)
             currentAlarm == currentDict[id]
             out == IF id \in DOMAIN previousDict
                    THEN IF previousDict[id].state # currentAlarm.state
                         THEN sendAlarmStateChangedEvent(currentAlarm,
                                  describeState(previousDict[id].state),
                                  describeState(currentAlarm.state), now)
                         ELSE <<>>
                    ELSE <<Event("alarmAdded", serializeAlarm(currentAlarm))>>
         IN  IF out # <<>> THEN out
             ELSE CheckCurrent_Breaks(Tail(order), previousDict, currentDict, now)

\* Variant: a new alarm is also reported as a change of state.
RECURSIVE CheckCurrent_NewAlsoChanged(_, _, _, _)
CheckCurrent_NewAlsoChanged(order, previousDict, currentDict, now) ==
    IF order = <<>> THEN <<>>
    ELSE LET id == Head(order)
             currentAlarm == currentDict[id]
             out == IF id \in DOMAIN previousDict
                    THEN IF previousDict[id].state # currentAlarm.state
                         THEN sendAlarmStateChangedEvent(currentAlarm,
                                  describeState(previousDict[id].state),
                                  describeState(currentAlarm.state), now)
                         ELSE <<>>
                    ELSE <<Event("alarmAdded", serializeAlarm(currentAlarm))>>
                             \o sendAlarmStateChangedEvent(currentAlarm, "unknown",
                                    describeState(currentAlarm.state), now)
         IN  out \o CheckCurrent_NewAlsoChanged(Tail(order), previousDict, currentDict, now)

\* for (id, currentAlarm) in currentDict { ... }, iterated in `order`
RECURSIVE CheckCurrent(_, _, _, _)
CheckCurrent(order, previousDict, currentDict, now) ==
    IF order = <<>> THEN <<>>
    ELSE LET id == Head(order)
             currentAlarm == currentDict[id]
             out == IF id \in DOMAIN previousDict
                    THEN IF previousDict[id].state # currentAlarm.state
                         THEN sendAlarmStateChangedEvent(currentAlarm,
                                  describeState(previousDict[id].state),
                                  describeState(currentAlarm.state), now)
                         ELSE <<>>
                    ELSE <<Event("alarmAdded", serializeAlarm(currentAlarm))>>
         IN  out \o CheckCurrent(Tail(order), previousDict, currentDict, now)

\* Variant: the nil test is missing, every previous id is reported removed.
RECURSIVE CheckRemoved_NoTest(_, _, _)
CheckRemoved_NoTest(order, previousDict, currentDict) ==
    IF order = <<>> THEN <<>>
    ELSE LET id == Head(order)
             out == <<Event("alarmRemoved",
                            [id |-> uuidString(id),
                             lastState |-> describeState(previousDict[id].state)])>>
         IN  out \o CheckRemoved_NoTest(Tail(order), previousDict, currentDict)

\* Variant: the nil test is inverted (currentDict[id] != nil).
RECURSIVE CheckRemoved_Inverted(_, _, _)
CheckRemoved_Inverted(order, previousDict, currentDict) ==
    IF order = <<>> THEN <<>>
    ELSE LET id == Head(order)
             out == IF id \in DOMAIN currentDict
                    THEN <<Event("alarmRemoved",
                                 [id |-> uuidString(id),
                                  lastState |-> describeState(previousDict[id].state)])>>
                    ELSE <<>>
         IN  out \o CheckRemoved_Inverted(Tail(order), previousDict, currentDict)

\* for (id, previousAlarm) in previousDict { ... }, iterated in `order`
RECURSIVE CheckRemoved(_, _, _)
CheckRemoved(order, previousDict, currentDict) ==
    IF order = <<>> THEN <<>>
    ELSE LET id == Head(order)
             out == IF id \notin DOMAIN currentDict
                    THEN <<Event("alarmRemoved",
                                 [id |-> uuidString(id),
                                  lastState |-> describeState(previousDict[id].state)])>>
                    ELSE <<>>
         IN  out \o CheckRemoved(Tail(order), previousDict, currentDict)

\* Variant: the loop over previousDict is missing.
detectStateChanges_NoRemovedLoop(previous, current, now) ==
    LET previousDict == DictionaryOf(previous)
        currentDict == DictionaryOf(current)
    IN  {CheckCurrent(order, previousDict, currentDict, now) :
             order \in Orders(DOMAIN currentDict)}

\* The event sequences detectStateChanges may send: one for every order in
\* which the two for-in loops may iterate currentDict and previousDict.
detectStateChanges(previous, current, now) ==
    LET previousDict == DictionaryOf(previous)
        currentDict == DictionaryOf(current)
        fromCurrent == {CheckCurrent(order, previousDict, currentDict, now) :
                            order \in Orders(DOMAIN currentDict)}
        fromPrevious == {CheckRemoved(order, previousDict, currentDict) :
                            order \in Orders(DOMAIN previousDict)}
    IN  {a \o b : a \in fromCurrent, b \in fromPrevious}

\* Variant: scheduledCount counts every alarm (the filter is missing).
ListChangedEvent_NoFilter(currentAlarms, now) ==
    Event("alarmListChanged",
          [totalCount |-> Len(currentAlarms),
           scheduledCount |-> Len(currentAlarms),
           timestamp |-> now])

ListChangedEvent(currentAlarms, now) ==
    Event("alarmListChanged",
          [totalCount |-> Len(currentAlarms),
           scheduledCount |->
               Cardinality({i \in DOMAIN currentAlarms : currentAlarms[i].state = ".scheduled"}),
           timestamp |-> now])

\* Variant: alarmListChanged is sent after detectStateChanges has run.
handleAlarmListChanged_ListLast(currentAlarms) ==
    /\ previousAlarms' = lastKnownAlarms
    /\ lastKnownAlarms' = currentAlarms
    /\ IF HasDuplicateKeys(lastKnownAlarms) \/ HasDuplicateKeys(currentAlarms)
       THEN /\ sent' = <<>>
            /\ crashed' = TRUE
       ELSE /\ \E changes \in detectStateChanges(lastKnownAlarms, currentAlarms, clock) :
                  sent' = changes \o <<ListChangedEvent(currentAlarms, clock)>>
            /\ crashed' = crashed
    /\ ticks' = IF ticks = 0 THEN 1 ELSE 2

\* Variant: lastKnownAlarms = currentAlarms is missing.
handleAlarmListChanged_KeepsLastKnown(currentAlarms) ==
    /\ previousAlarms' = lastKnownAlarms
    /\ lastKnownAlarms' = lastKnownAlarms
    /\ IF HasDuplicateKeys(lastKnownAlarms) \/ HasDuplicateKeys(currentAlarms)
       THEN /\ sent' = <<ListChangedEvent(currentAlarms, clock)>>
            /\ crashed' = TRUE
       ELSE /\ \E changes \in detectStateChanges(lastKnownAlarms, currentAlarms, clock) :
                  sent' = <<ListChangedEvent(currentAlarms, clock)>> \o changes
            /\ crashed' = crashed
    /\ ticks' = IF ticks = 0 THEN 1 ELSE 2

\* handleAlarmListChanged(currentAlarms): the sink's callback.
handleAlarmListChanged(currentAlarms) ==
    /\ previousAlarms' = lastKnownAlarms
    /\ lastKnownAlarms' = currentAlarms
    /\ IF HasDuplicateKeys(lastKnownAlarms) \/ HasDuplicateKeys(currentAlarms)
       THEN /\ sent' = <<ListChangedEvent(currentAlarms, clock)>>
            /\ crashed' = TRUE
       ELSE /\ \E changes \in detectStateChanges(lastKnownAlarms, currentAlarms, clock) :
                  sent' = <<ListChangedEvent(currentAlarms, clock)>> \o changes
            /\ crashed' = crashed
    /\ ticks' = IF ticks = 0 THEN 1 ELSE 2

\* History of the sendEvent calls: the ids an alarmAdded has been sent for and
\* no alarmRemoved since, after the calls in `events` are added to `old`.
RECURSIVE Announce(_, _)
Announce(old, events) ==
    IF events = <<>> THEN old
    ELSE LET e == Head(events)
             next == IF e.name = "alarmAdded" THEN old \cup {e.payload.id}
                     ELSE IF e.name = "alarmRemoved" THEN old \ {e.payload.id}
                     ELSE old
         IN  Announce(next, Tail(events))

\* ------------------------------------------------- the tick on its own ---
\* A session that is observing with any last known list receives one tick
\* with any current list.
InitDiff ==
    /\ alarms \in Snapshots
    /\ lastKnownAlarms \in Snapshots
    /\ available = TRUE
    /\ isObserving = TRUE
    /\ alarmObserver = Some(1)
    /\ previousAlarms = <<>>
    /\ sent = <<>>
    /\ sinks = {1}
    /\ sinkCalls = 1
    /\ startCalls = 1
    /\ ticks = 0
    /\ crashed = FALSE
    /\ deallocated = FALSE
    /\ clock = 0
    /\ pc = "idle"
    /\ currentList = <<>>
    /\ toSend = <<>>
    /\ promise = Unsettled
    /\ observing = FALSE
    /\ calls = [c \in 1..MaxCalls |-> NotCalled]
    /\ fromSink = 0
    /\ parked = NoCall
    /\ announced = {}
    /\ hook = FirstRender
    /\ listeners = NoListeners
    /\ authorizationState = ".notDetermined"
    /\ requested = FALSE

TickOnce ==
    /\ ticks = 0
    /\ handleAlarmListChanged(alarms)
    /\ announced' = Announce(announced, sent')
    /\ UNCHANGED <<alarms, available, isObserving, alarmObserver, sinks, sinkCalls,
                   startCalls, deallocated, clock, inFlight, promise, js, threads, authority>>

NextDiff == TickOnce

SpecDiff == InitDiff /\ [][NextDiff]_vars

\* --------------------------------------- a tick with an id listed twice --
\* The [Alarm] arrays in which one id occurs twice.
Repeats == UNION {{<<a, b>> : a, b \in AlarmsWithId(i)} : i \in Ids}

\* An observing session receives one tick whose list repeats an id.
InitDuplicates ==
    /\ alarms \in Repeats
    /\ lastKnownAlarms \in Snapshots
    /\ available = TRUE
    /\ isObserving = TRUE
    /\ alarmObserver = Some(1)
    /\ previousAlarms = <<>>
    /\ sent = <<>>
    /\ sinks = {1}
    /\ sinkCalls = 1
    /\ startCalls = 1
    /\ ticks = 0
    /\ crashed = FALSE
    /\ deallocated = FALSE
    /\ clock = 0
    /\ pc = "idle"
    /\ currentList = <<>>
    /\ toSend = <<>>
    /\ promise = Unsettled
    /\ observing = FALSE
    /\ calls = [c \in 1..MaxCalls |-> NotCalled]
    /\ fromSink = 0
    /\ parked = NoCall
    /\ announced = {}
    /\ hook = FirstRender
    /\ listeners = NoListeners
    /\ authorizationState = ".notDetermined"
    /\ requested = FALSE

NextDuplicates == TickOnce

SpecDuplicates == InitDuplicates /\ [][NextDuplicates]_vars

\* ------------------------------------------------------- the session -----
Init ==
    /\ alarms = <<>>
    /\ available \in BOOLEAN
    /\ isObserving = FALSE
    /\ alarmObserver = Nil
    /\ lastKnownAlarms = <<>>
    /\ previousAlarms = <<>>
    /\ sent = <<>>
    /\ sinks = {}
    /\ sinkCalls = 0
    /\ startCalls = 0
    /\ ticks = 0
    /\ crashed = FALSE
    /\ deallocated = FALSE
    /\ clock = 0
    /\ pc = "idle"
    /\ currentList = <<>>
    /\ toSend = <<>>
    /\ promise = Unsettled
    /\ observing = FALSE
    /\ calls = [c \in 1..MaxCalls |-> NotCalled]
    /\ fromSink = 0
    /\ parked = NoCall
    /\ announced = {}
    /\ hook = FirstRender
    /\ listeners = NoListeners
    /\ authorizationState = ".notDetermined"
    /\ requested = FALSE

\* Releasing an AnyCancellable cancels its subscription.
Released(optional) == {optional[i] : i \in DOMAIN optional}

\* Variant: the guard !isObserving is missing.
startAlarmObservation_NoGuard ==
    /\ isObserving' = TRUE
    /\ sinkCalls' = sinkCalls + 1
    /\ alarmObserver' = Some(sinkCalls + 1)
    /\ sinks' = (sinks \ Released(alarmObserver)) \cup {sinkCalls + 1}
    /\ ticks' = 0
    /\ UNCHANGED lastKnownAlarms

\* Variant: the Authority's list is stored in lastKnownAlarms at start.
startAlarmObservation_Captures ==
    IF isObserving
    THEN UNCHANGED <<isObserving, alarmObserver, sinks, sinkCalls, ticks, lastKnownAlarms>>
    ELSE /\ isObserving' = TRUE
         /\ sinkCalls' = sinkCalls + 1
         /\ alarmObserver' = Some(sinkCalls + 1)
         /\ sinks' = (sinks \ Released(alarmObserver)) \cup {sinkCalls + 1}
         /\ ticks' = 0
         /\ lastKnownAlarms' = alarms

\* guard !isObserving else { return }; the sink is stored in alarmObserver
startAlarmObservation ==
    IF isObserving
    THEN UNCHANGED <<isObserving, alarmObserver, sinks, sinkCalls, ticks, lastKnownAlarms>>
    ELSE /\ isObserving' = TRUE
         /\ sinkCalls' = sinkCalls + 1
         /\ alarmObserver' = Some(sinkCalls + 1)
         /\ sinks' = (sinks \ Released(alarmObserver)) \cup {sinkCalls + 1}
         /\ ticks' = 0
         /\ UNCHANGED lastKnownAlarms

\* Variant: lastKnownAlarms = [] is missing.
stopAlarmObservation_KeepsList ==
    /\ sinks' = sinks \ Released(alarmObserver)
    /\ alarmObserver' = Nil
    /\ isObserving' = FALSE
    /\ ticks' = 0
    /\ UNCHANGED lastKnownAlarms

\* alarmObserver?.cancel(); alarmObserver = nil; isObserving = false; lastKnownAlarms = []
stopAlarmObservation ==
    /\ sinks' = sinks \ Released(alarmObserver)
    /\ alarmObserver' = Nil
    /\ isObserving' = FALSE
    /\ lastKnownAlarms' = <<>>
    /\ ticks' = 0

\* AsyncFunction("startObserving")
StartObserving ==
    /\ ~deallocated /\ ~crashed
    /\ startCalls < MaxStartCalls
    /\ startCalls' = startCalls + 1
    /\ IF available
       THEN startAlarmObservation
       ELSE UNCHANGED <<isObserving, alarmObserver, sinks, sinkCalls, ticks, lastKnownAlarms>>
    /\ UNCHANGED <<alarms, available, previousAlarms, sent, crashed, deallocated, clock,
                   inFlight, promise, js, threads, announced, authority>>

\* AsyncFunction("stopObserving")
StopObserving ==
    /\ ~deallocated /\ ~crashed
    /\ stopAlarmObservation
    /\ UNCHANGED <<alarms, available, previousAlarms, sent, sinkCalls, startCalls,
                   crashed, deallocated, clock, inFlight, promise, js, threads, announced, authority>>

\* deinit
Deinit ==
    /\ ~deallocated /\ ~crashed
    /\ stopAlarmObservation
    /\ deallocated' = TRUE
    /\ UNCHANGED <<alarms, available, previousAlarms, sent, sinkCalls, startCalls,
                   crashed, clock, inFlight, promise, js, threads, announced, authority>>

\* A live sink subscription delivers the Authority's list.
Tick ==
    /\ ~crashed
    /\ sinks # {}
    /\ handleAlarmListChanged(alarms)
    /\ announced' = Announce(announced, sent')
    /\ UNCHANGED <<alarms, available, isObserving, alarmObserver, sinks, sinkCalls,
                   startCalls, deallocated, clock, inFlight, promise, js, threads, authority>>

\* ------------------------------------------------------ the Authority ----
RECURSIVE InsertById(_, _)
InsertById(list, alarm) ==
    IF list = <<>> \/ alarm.id < Head(list).id THEN <<alarm>> \o list
    ELSE <<Head(list)>> \o InsertById(Tail(list), alarm)

\* mgr.schedule(id: UUID(), configuration: config) with Alarm.Schedule.fixed(fireDate)
AuthoritySchedule(id) ==
    /\ available
    /\ id \notin IdsOf(alarms)
    /\ \E d \in FireDates :
          alarms' = InsertById(alarms, [id |-> id, state |-> ".scheduled",
                                        schedule |-> [kind |-> "fixed", date |-> d]])

\* scheduled -> running
AuthorityFire(id) ==
    /\ \E i \in DOMAIN alarms :
          /\ alarms[i].id = id
          /\ alarms[i].state = ".scheduled"
          /\ alarms' = [alarms EXCEPT ![i].state = ".running"]

\* manager.cancel(alarmId:), or the alarm completes: it leaves the list
AuthorityRemove(id) ==
    /\ id \in IdsOf(alarms)
    /\ alarms' = SelectSeq(alarms, LAMBDA a : a.id # id)

AuthorityStep ==
    /\ ~deallocated
    /\ \E id \in Ids : AuthoritySchedule(id) \/ AuthorityFire(id) \/ AuthorityRemove(id)
    /\ UNCHANGED <<available, isObserving, alarmObserver, lastKnownAlarms, previousAlarms,
                   sent, sinks, sinkCalls, startCalls, ticks, crashed, deallocated, clock,
                   inFlight, promise, js, threads, announced, authority>>

Next == StartObserving \/ StopObserving \/ Deinit \/ Tick \/ AuthorityStep

Spec == Init /\ [][Next]_vars

\* ------------------------------------- the handler, statement by statement
\* startObserving and stopObserving are AsyncFunctions called from JavaScript,
\* handleAlarmListChanged is called by the sink; the module has no lock or
\* queue of its own, so a call may run between two statements of the handler.

\* .sink { [weak self] alarms in self?.handleAlarmListChanged(alarms) }
\* let previousAlarms = lastKnownAlarms
SinkReceives ==
    /\ ~crashed /\ ~deallocated
    /\ pc = "idle"
    /\ \E sink \in sinks :
          /\ parked.pc # "idle" => parked.fromSink # sink
          /\ fromSink' = sink
    /\ currentList' = alarms
    /\ previousAlarms' = lastKnownAlarms
    /\ sent' = <<>>
    /\ toSend' = <<>>
    /\ ticks' = IF ticks = 0 THEN 1 ELSE 2
    /\ pc' = "assign"
    /\ UNCHANGED <<alarms, available, isObserving, alarmObserver, lastKnownAlarms, sinks,
                   sinkCalls, startCalls, crashed, deallocated, clock, promise, js, parked,
                   announced, authority>>

\* lastKnownAlarms = currentAlarms
AssignLastKnown ==
    /\ pc = "assign"
    /\ lastKnownAlarms' = currentList
    /\ pc' = "sendList"
    /\ UNCHANGED <<alarms, available, isObserving, alarmObserver, previousAlarms, sent,
                   sinks, sinkCalls, startCalls, ticks, crashed, deallocated, clock,
                   currentList, toSend, promise, js, threads, announced, authority>>

\* sendEvent("alarmListChanged", ...)
SendListChanged ==
    /\ pc = "sendList"
    /\ sent' = Append(sent, ListChangedEvent(currentList, clock))
    /\ pc' = "detect"
    /\ UNCHANGED <<alarms, available, isObserving, alarmObserver, lastKnownAlarms,
                   previousAlarms, sinks, sinkCalls, startCalls, ticks, crashed,
                   deallocated, clock, currentList, toSend, promise, js, threads, announced, authority>>

\* detectStateChanges(previous: previousAlarms, current: currentAlarms): the two
\* dictionaries are built, and the events of the two loops are fixed by them.
DetectStateChanges ==
    /\ pc = "detect"
    /\ IF HasDuplicateKeys(previousAlarms) \/ HasDuplicateKeys(currentList)
       THEN /\ crashed' = TRUE
            /\ toSend' = <<>>
            /\ pc' = "idle"
       ELSE /\ crashed' = crashed
            /\ toSend' \in detectStateChanges(previousAlarms, currentList, clock)
            /\ pc' = IF toSend' = <<>> THEN "idle" ELSE "send"
    /\ UNCHANGED <<alarms, available, isObserving, alarmObserver, lastKnownAlarms,
                   previousAlarms, sent, sinks, sinkCalls, startCalls, ticks,
                   deallocated, clock, currentList, promise, js, threads, announced, authority>>

\* Variant: the time read when the tick began is sent.
Stamp_Stale(e, now) == e

\* eventData["timestamp"] = Date().timeIntervalSince1970
Stamp(e, now) == [e EXCEPT !.payload.timestamp = now]

\* the next sendEvent of the loops; sendAlarmStateChangedEvent reads the clock
\* once, for the alarmStateChanged and the alarmFired it sends
SendNext ==
    /\ pc = "send"
    /\ LET e == Head(toSend)
           rest == Tail(toSend)
       IN  IF e.name = "alarmStateChanged"
           THEN /\ sent' = Append(sent, Stamp(e, clock))
                /\ toSend' = IF rest # <<>> /\ Head(rest).name = "alarmFired"
                             THEN <<Stamp(Head(rest), clock)>> \o Tail(rest)
                             ELSE rest
           ELSE /\ sent' = Append(sent, e)
                /\ toSend' = rest
    /\ pc' = IF toSend' = <<>> THEN "idle" ELSE "send"
    /\ announced' = Announce(announced, <<Head(toSend)>>)
    /\ UNCHANGED <<alarms, available, isObserving, alarmObserver, lastKnownAlarms,
                   previousAlarms, sinks, sinkCalls, startCalls, ticks, crashed,
                   deallocated, clock, currentList, promise, js, threads, authority>>

\* let alarms = try! AlarmManager.shared.alarms: the getter may throw, and a
\* try! traps when it does.
getAllScheduledAlarms(throws) ==
    IF throws
    THEN crashed' = TRUE /\ promise' = promise
    ELSE crashed' = crashed /\ promise' = Resolved("alarms")  \* the list by name

\* AsyncFunction("getAllScheduledAlarmsAsync")
GetAllScheduledAlarmsAsync ==
    /\ ~crashed /\ ~deallocated
    /\ IF available
       THEN \E throws \in BOOLEAN : getAllScheduledAlarms(throws)
       ELSE crashed' = crashed /\ promise' = Rejected("UnavailableException")
    /\ UNCHANGED <<session, js, threads, announced, authority>>

NextInterleaved ==
    \/ StartObserving
    \/ StopObserving
    \/ SinkReceives
    \/ AssignLastKnown
    \/ SendListChanged
    \/ DetectStateChanges
    \/ SendNext
    \/ AuthorityStep
    \/ GetAllScheduledAlarmsAsync

SpecInterleaved == Init /\ [][NextInterleaved]_vars

\* ------------------------------------------------- cancel and cancelAll --
\* The strings passed as alarmId: the uuidString of an id, the empty string
\* (text 0) and "invalid-id" (text 1).
AlarmIdStrings == {uuidString(i) : i \in Ids} \cup {<<"text", 0>>, <<"text", 1>>}

\* UUID(uuidString:): nil unless the string has the form of a UUID
UUIDFrom(alarmId) == IF alarmId[1] = "uuid" THEN Some(alarmId[2]) ELSE Nil

\* Variant: the guard allAlarms.contains is missing, and cancelling an id the
\* Authority does not list is accepted.
cancelAlarm_NoExistenceCheck(alarmId, alarmsThrows, cancelThrows) ==
    LET uuid == UUIDFrom(alarmId)
    IN  IF uuid = Nil
        THEN promise' = Rejected("400") /\ alarms' = alarms
        ELSE IF alarmsThrows \/ cancelThrows
        THEN promise' = Rejected("AlarmKit") /\ alarms' = alarms
        ELSE /\ alarms' = SelectSeq(alarms, LAMBDA a : a.id # uuid[1])
             /\ promise' = Resolved(Nil)

\* cancelAlarm(alarmId:) under the do/catch of AsyncFunction("cancel");
\* manager.alarms and manager.cancel(alarmId:) may throw
cancelAlarm(alarmId, alarmsThrows, cancelThrows) ==
    LET uuid == UUIDFrom(alarmId)
    IN  IF uuid = Nil
        THEN promise' = Rejected("400") /\ alarms' = alarms
        ELSE IF alarmsThrows
        THEN promise' = Rejected("AlarmKit") /\ alarms' = alarms
        ELSE IF uuid[1] \notin IdsOf(alarms)
        THEN promise' = Rejected("404") /\ alarms' = alarms
        ELSE IF cancelThrows
        THEN promise' = Rejected("AlarmKit") /\ alarms' = alarms
        ELSE /\ alarms' = SelectSeq(alarms, LAMBDA a : a.id # uuid[1])
             /\ promise' = Resolved(Nil)

\* ExpoAlarmManager.cancel, then AsyncFunction("cancel")
Cancel(alarmId) ==
    /\ ~crashed /\ ~deallocated
    /\ IF alarmId = <<"text", 0>>
       THEN promise' = Rejected("Alarm ID must be a non-empty string") /\ alarms' = alarms
       ELSE IF ~available
       THEN promise' = Rejected("UnavailableException") /\ alarms' = alarms
       ELSE \E alarmsThrows, cancelThrows \in BOOLEAN :
               cancelAlarm(alarmId, alarmsThrows, cancelThrows)
    /\ UNCHANGED <<available, isObserving, alarmObserver, lastKnownAlarms, previousAlarms,
                   sent, sinks, sinkCalls, startCalls, ticks, crashed, deallocated, clock,
                   inFlight, js, threads, announced, authority>>

\* alarm.state == .scheduled || alarm.state == .running
cancellableAlarms(allAlarms) ==
    SelectSeq(allAlarms, LAMBDA alarm : alarm.state = ".scheduled" \/ alarm.state = ".running")

\* cancelAllAlarms() under the do/catch of AsyncFunction("cancelAll"): the
\* cancels of the ids in `failing` throw and are caught in the loop
cancelAllAlarms(alarmsThrows, failing) ==
    IF alarmsThrows
    THEN promise' = Rejected("AlarmKit") /\ alarms' = alarms
    ELSE /\ alarms' = SelectSeq(alarms,
                           LAMBDA a : a.id \notin IdsOf(cancellableAlarms(alarms)) \ failing)
         /\ promise' = [state |-> "resolved", count |-> Len(cancellableAlarms(alarms))]

\* ExpoAlarmManager.cancelAll, then AsyncFunction("cancelAll")
CancelAll ==
    /\ ~crashed /\ ~deallocated
    /\ IF ~available
       THEN promise' = Rejected("UnavailableException") /\ alarms' = alarms
       ELSE \E alarmsThrows \in BOOLEAN :
               \E failing \in SUBSET IdsOf(cancellableAlarms(alarms)) :
                  cancelAllAlarms(alarmsThrows, failing)
    /\ UNCHANGED <<available, isObserving, alarmObserver, lastKnownAlarms, previousAlarms,
                   sent, sinks, sinkCalls, startCalls, ticks, crashed, deallocated, clock,
                   inFlight, js, threads, announced, authority>>

\* The Authority holds any list when the application starts to cancel.
InitCancel ==
    /\ alarms \in Snapshots
    /\ available \in BOOLEAN
    /\ isObserving = FALSE
    /\ alarmObserver = Nil
    /\ lastKnownAlarms = <<>>
    /\ previousAlarms = <<>>
    /\ sent = <<>>
    /\ sinks = {}
    /\ sinkCalls = 0
    /\ startCalls = 0
    /\ ticks = 0
    /\ crashed = FALSE
    /\ deallocated = FALSE
    /\ clock = 0
    /\ pc = "idle"
    /\ currentList = <<>>
    /\ toSend = <<>>
    /\ promise = Unsettled
    /\ observing = FALSE
    /\ calls = [c \in 1..MaxCalls |-> NotCalled]
    /\ fromSink = 0
    /\ parked = NoCall
    /\ announced = {}
    /\ hook = FirstRender
    /\ listeners = NoListeners
    /\ authorizationState = ".notDetermined"
    /\ requested = FALSE

NextCancel ==
    \/ \E alarmId \in AlarmIdStrings : Cancel(alarmId)
    \/ CancelAll

SpecCancel == InitCancel /\ [][NextCancel]_vars

\* A call of ExpoAlarmManager.startObserving / stopObserving up to its await:
\* if (this.observing) return  /  if (!this.observing) return
Begun(op) ==
    [op |-> op, at |-> IF observing = (op = "start") THEN "resolved" ELSE "native"]


\* -------------------------------------------- the JavaScript wrapper -----
\* ExpoAlarmManager.startObserving / stopObserving up to the await: a call
\* that finds the flag already as wanted returns at once, another one calls
\* the native function.
WrapperCalled(c, op) ==
    /\ calls[c] = NotCalled
    /\ calls' = [calls EXCEPT ![c] = Begun(op)]
    /\ UNCHANGED <<observing, session, crashed, promise, threads, announced, react, authority>>

\* AsyncFunction("startObserving") run for call c
NativeStartRuns(c) ==
    /\ calls[c] = [op |-> "start", at |-> "native"]
    /\ startCalls' = startCalls + 1
    /\ IF available
       THEN /\ startAlarmObservation
            /\ promise' = Resolved(TRUE)
            /\ calls' = [calls EXCEPT ![c].at = "await"]
       ELSE /\ UNCHANGED <<isObserving, alarmObserver, sinks, sinkCalls, ticks,
                           lastKnownAlarms>>
            /\ promise' = Rejected("UnavailableException")
            /\ calls' = [calls EXCEPT ![c].at = "rejected"]
    /\ UNCHANGED <<alarms, available, previousAlarms, sent, crashed, deallocated, clock,
                   inFlight, observing, threads, announced, react, authority>>

\* AsyncFunction("stopObserving") run for call c
NativeStopRuns(c) ==
    /\ calls[c] = [op |-> "stop", at |-> "native"]
    /\ stopAlarmObservation
    /\ promise' = Resolved(TRUE)
    /\ calls' = [calls EXCEPT ![c].at = "await"]
    /\ UNCHANGED <<alarms, available, previousAlarms, sent, sinkCalls, startCalls,
                   crashed, deallocated, clock, inFlight, observing, threads, announced, react, authority>>

\* after the await: this.observing = true / false, and the call resolves
WrapperResumes(c) ==
    /\ calls[c].at = "await"
    /\ observing' = (calls[c].op = "start")
    /\ calls' = [calls EXCEPT ![c].at = "resolved"]
    /\ UNCHANGED <<session, crashed, promise, threads, announced, react, authority>>

NextWrapper ==
    \/ \E c \in 1..MaxCalls : \E op \in {"start", "stop"} : WrapperCalled(c, op)
    \/ \E c \in 1..MaxCalls : NativeStartRuns(c)
    \/ \E c \in 1..MaxCalls : NativeStopRuns(c)
    \/ \E c \in 1..MaxCalls : WrapperResumes(c)

SpecWrapper == Init /\ [][NextWrapper]_vars

\* ------------------------------------- permissions and scheduleOneOff -----
\* alarmManager.requestAuthorization(): what the call returns, "throws" when it
\* throws.  A state already decided is returned as it is, .notDetermined asks
\* the user.
RequestOutcomes ==
    {"throws"} \cup (IF authorizationState = ".notDetermined"
                     THEN {".authorized", ".denied"}
                     ELSE {authorizationState})

\* The state the Authority holds after the call.
AfterRequest(outcome) == IF outcome = "throws" THEN authorizationState ELSE outcome

\* switch state { case .authorized: ... @unknown default: status = "unknown" }
statusOf(state) ==
    CASE state = ".authorized" -> "authorized"
      [] state = ".denied" -> "denied"
      [] state = ".notDetermined" -> "notDetermined"
      [] OTHER -> "unknown"

\* Variant: the authorization is requested whatever the state is.
getAlarmPermissions_AlwaysAsks(outcome) ==
    LET state == IF outcome = "throws" THEN ".notDetermined" ELSE outcome
    IN  /\ requested' = TRUE
        /\ authorizationState' = AfterRequest(outcome)
        /\ promise' = Resolved(statusOf(state))

\* The Task of AsyncFunction("getAlarmPermissionsAsync"); `outcome` is what
\* requestAuthorization() returns if it is called.
getAlarmPermissions(outcome) ==
    IF authorizationState = ".notDetermined"
    THEN LET state == IF outcome = "throws" THEN ".notDetermined" ELSE outcome
         IN  /\ requested' = TRUE
             /\ authorizationState' = AfterRequest(outcome)
             /\ promise' = Resolved(statusOf(state))
    ELSE /\ requested' = FALSE
         /\ authorizationState' = authorizationState
         /\ promise' = Resolved(statusOf(authorizationState))

\* AlarmKit.getAlarmPermissionsAsync / requestAlarmPermissionsAsync, then
\* AsyncFunction("getAlarmPermissionsAsync")
GetAlarmPermissionsAsync ==
    /\ ~crashed /\ ~deallocated
    /\ IF ~available
       THEN /\ promise' = Rejected("UnavailableException")
            /\ requested' = FALSE
            /\ authorizationState' = authorizationState
       ELSE \E outcome \in RequestOutcomes : getAlarmPermissions(outcome)
    /\ UNCHANGED <<alarms, available, isObserving, alarmObserver, lastKnownAlarms,
                   previousAlarms, sent, sinks, sinkCalls, startCalls, ticks, crashed,
                   deallocated, clock, inFlight, js, threads, announced>>

\* scheduleOneOffAlarm(), then promise.resolve(nil) or promise.reject(error):
\* `outcome` is what requestAuthorization() returns, `id` the UUID() made.
scheduleOneOffAlarm(outcome, scheduleThrows, id) ==
    /\ requested' = TRUE
    /\ authorizationState' = AfterRequest(outcome)
    /\ IF outcome = "throws"
       THEN promise' = Rejected("AlarmKit") /\ alarms' = alarms
       ELSE IF outcome # ".authorized"
       THEN promise' = Resolved(Nil) /\ alarms' = alarms
       ELSE IF scheduleThrows
       THEN promise' = Rejected("AlarmKit") /\ alarms' = alarms
       ELSE AuthoritySchedule(id) /\ promise' = Resolved(Nil)

\* AlarmKit.scheduleOneOffAsync, then AsyncFunction("scheduleOneOffAsync").
\* (An id is fresh while one of Ids is left.)
ScheduleOneOffAsync ==
    /\ ~crashed /\ ~deallocated
    /\ IF ~available
       THEN /\ promise' = Rejected("UnavailableException")
            /\ alarms' = alarms
            /\ UNCHANGED authority
       ELSE \E outcome \in RequestOutcomes : \E scheduleThrows \in BOOLEAN :
               \E id \in Ids \ IdsOf(alarms) :
                  scheduleOneOffAlarm(outcome, scheduleThrows, id)
    /\ UNCHANGED <<available, isObserving, alarmObserver, lastKnownAlarms, previousAlarms,
                   sent, sinks, sinkCalls, startCalls, ticks, crashed, deallocated, clock,
                   inFlight, js, threads, announced>>

\* The application starts with the authorization in any state.
InitPermissions ==
    /\ alarms = <<>>
    /\ available \in BOOLEAN
    /\ isObserving = FALSE
    /\ alarmObserver = Nil
    /\ lastKnownAlarms = <<>>
    /\ previousAlarms = <<>>
    /\ sent = <<>>
    /\ sinks = {}
    /\ sinkCalls = 0
    /\ startCalls = 0
    /\ ticks = 0
    /\ crashed = FALSE
    /\ deallocated = FALSE
    /\ clock = 0
    /\ pc = "idle"
    /\ currentList = <<>>
    /\ toSend = <<>>
    /\ promise = Unsettled
    /\ observing = FALSE
    /\ calls = [c \in 1..MaxCalls |-> NotCalled]
    /\ fromSink = 0
    /\ parked = NoCall
    /\ announced = {}
    /\ hook = FirstRender
    /\ listeners = NoListeners
    /\ authorizationState \in AuthorizationStates
    /\ requested = FALSE

NextPermissions ==
    \/ GetAlarmPermissionsAsync
    \/ ScheduleOneOffAsync
    \/ AuthorityStep

SpecPermissions == InitPermissions /\ [][NextPermissions]_vars

\* --------------------------------------------------- useAlarmObserver -----
\* The listeners the first effect registers, in the order it pushes them.
HookNames == <<"alarmStateChanged", "alarmListChanged", "alarmFired">>

Occurrences(names, name) == Cardinality({i \in DOMAIN names : names[i] = name})

\* subscriptions.push(AlarmManager.onAlarm...(...)) for each of `names`
PushEach(held, names) == [name \in ListenerNames |-> held[name] + Occurrences(names, name)]

\* Variant: the first effect returns no cleanup.
RemoveEach_Nothing(held, subscriptions) == held

\* subscriptions.forEach(sub => sub.remove())
RemoveEach(held, subscriptions) ==
    [name \in ListenerNames |-> held[name] - Occurrences(subscriptions, name)]

\* The first slot of calls not used yet.
FreeCall == CHOOSE c \in 1..MaxCalls : calls[c] = NotCalled /\ \A b \in 1..(c - 1) : calls[b] # NotCalled

\* Cleanup of the second effect: if (isObserving) { AlarmManager.stopObserving(); }
\* The call is not awaited and sets no state.  (MaxCalls caps the calls.)
CleanupStops ==
    IF hook.isObserving
    THEN /\ \E c \in 1..MaxCalls : calls[c] = NotCalled
         /\ calls' = [calls EXCEPT ![FreeCall] = Begun("stop")]
    ELSE calls' = calls

\* The component calls the hook's startObserving / stopObserving: the call runs
\* up to await AlarmManager.startObserving() / stopObserving().
HookCalled(c, op) ==
    /\ hook.mounted
    /\ calls[c] = NotCalled
    /\ calls' = [calls EXCEPT ![c] = Begun(op)]
    /\ hook' = [hook EXCEPT !.callbacks = @ \cup {c}]
    /\ UNCHANGED <<observing, session, crashed, promise, threads, announced, listeners, authority>>

\* After the await: setIsObserving(true / false), or the catch block when the
\* call was rejected.  setIsObserving of an unmounted component does nothing.
\* (The refreshAlarms call that follows touches none of the state modelled.)
HookContinues(c) ==
    /\ c \in hook.callbacks
    /\ calls[c].at \in {"resolved", "rejected"}
    /\ hook' = [hook EXCEPT !.callbacks = @ \ {c},
                            !.update = IF calls[c].at = "resolved" /\ hook.mounted
                                       THEN <<calls[c].op = "start">>
                                       ELSE @]
    /\ UNCHANGED <<observing, calls, session, crashed, promise, threads, announced, listeners, authority>>

\* The queued state is rendered.  When isObserving has changed both effects
\* run again: their cleanups with the old value, then their bodies with the new.
Render ==
    /\ hook.mounted
    /\ hook.update # <<>>
    /\ LET value == hook.update[1]
           subscriptions == IF value THEN HookNames ELSE <<>>
       IN  IF value # hook.isObserving
           THEN /\ listeners' = PushEach(RemoveEach(listeners, hook.subscriptions),
                                         subscriptions)
                /\ CleanupStops
                /\ hook' = [hook EXCEPT !.update = <<>>, !.isObserving = value,
                                        !.subscriptions = subscriptions]
           ELSE /\ hook' = [hook EXCEPT !.update = <<>>]
                /\ UNCHANGED <<listeners, calls>>
    /\ UNCHANGED <<observing, session, crashed, promise, threads, announced, authority>>

\* The component unmounts: the cleanups of both effects run.
Unmount ==
    /\ hook.mounted
    /\ listeners' = RemoveEach(listeners, hook.subscriptions)
    /\ CleanupStops
    /\ hook' = [hook EXCEPT !.mounted = FALSE, !.update = <<>>, !.subscriptions = <<>>]
    /\ UNCHANGED <<observing, session, crashed, promise, threads, announced, authority>>

NextHook ==
    \/ \E c \in 1..MaxCalls : \E op \in {"start", "stop"} : HookCalled(c, op)
    \/ \E c \in 1..MaxCalls : HookContinues(c)
    \/ Render
    \/ Unmount
    \/ \E c \in 1..MaxCalls : NativeStartRuns(c)
    \/ \E c \in 1..MaxCalls : NativeStopRuns(c)
    \/ \E c \in 1..MaxCalls : WrapperResumes(c)

SpecHook == Init /\ [][NextHook]_vars

\* ------------------------------------------------ one tick, with a clock --
\* The lists the Authority of this model produces: alarms scheduled with a
\* fixed date, some of them fired.
AuthorityLists ==
    {list \in Snapshots :
        \A i \in DOMAIN list : /\ list[i].state \in {".scheduled", ".running"}
                                /\ list[i].schedule.kind = "fixed"}

\* An observing session receives one tick while time passes.
InitClock ==
    /\ alarms \in AuthorityLists
    /\ lastKnownAlarms \in AuthorityLists
    /\ available = TRUE
    /\ isObserving = TRUE
    /\ alarmObserver = Some(1)
    /\ previousAlarms = <<>>
    /\ sent = <<>>
    /\ sinks = {1}
    /\ sinkCalls = 1
    /\ startCalls = 1
    /\ ticks = 0
    /\ crashed = FALSE
    /\ deallocated = FALSE
    /\ clock = 0
    /\ pc = "idle"
    /\ currentList = <<>>
    /\ toSend = <<>>
    /\ promise = Unsettled
    /\ observing = FALSE
    /\ calls = [c \in 1..MaxCalls |-> NotCalled]
    /\ fromSink = 0
    /\ parked = NoCall
    /\ announced = {}
    /\ hook = FirstRender
    /\ listeners = NoListeners
    /\ authorizationState = ".notDetermined"
    /\ requested = FALSE

ReceivesOnce == ticks = 0 /\ SinkReceives

\* Date(): time passes between any two statements.
ClockAdvances ==
    /\ clock < MaxClock
    /\ clock' = clock + 1
    /\ UNCHANGED <<alarms, available, isObserving, alarmObserver, lastKnownAlarms,
                   previousAlarms, sent, sinks, sinkCalls, startCalls, ticks, crashed,
                   deallocated, inFlight, promise, js, threads, announced, authority>>

NextClock ==
    \/ ReceivesOnce
    \/ AssignLastKnown
    \/ SendListChanged
    \/ DetectStateChanges
    \/ SendNext
    \/ ClockAdvances

SpecClock == InitClock /\ [][NextClock]_vars

\* ---------------------------------------------- one session, to its end --
\* A session that has just been started: the Authority holds any list, no tick
\* has run yet.
InitLive == InitClock /\ lastKnownAlarms = <<>>

NextLive == Tick \/ AuthorityStep \/ StopObserving

\* The sink is called with the list on subscription and on every change of
\* AlarmManager.shared.$alarms: a call that would change the session's state
\* is not put off for ever.
SpecLive == InitLive /\ [][NextLive]_vars /\ WF_vars(Tick)

\* ------------------------------------- two sinks, two calls of the handler --
\* The sink closure calls handleAlarmListChanged on the thread that delivers
\* the value, and the handler takes no lock and no queue: the closure of a
\* sink made by a later startAlarmObservation can call it while the call made
\* by an earlier sink is still running.  One call is stepped at a time; the
\* other one waits in parked.
Running ==
    [pc |-> pc, currentList |-> currentList, toSend |-> toSend,
     previousAlarms |-> previousAlarms, fromSink |-> fromSink]

\* The other thread gets the processor.
Switch ==
    /\ ~crashed
    /\ pc # "idle" \/ parked.pc # "idle"
    /\ parked' = Running
    /\ pc' = parked.pc
    /\ currentList' = parked.currentList
    /\ toSend' = parked.toSend
    /\ previousAlarms' = parked.previousAlarms
    /\ fromSink' = parked.fromSink
    /\ UNCHANGED <<alarms, available, isObserving, alarmObserver, lastKnownAlarms, sent,
                   sinks, sinkCalls, startCalls, ticks, crashed, deallocated, clock,
                   promise, js, announced, authority>>

NextOverlap ==
    \/ StartObserving
    \/ StopObserving
    \/ SinkReceives
    \/ AssignLastKnown
    \/ SendListChanged
    \/ DetectStateChanges
    \/ SendNext
    \/ Switch

SpecOverlap == InitClock /\ [][NextOverlap]_vars

\* =========================================================== properties ==
\* A tick has been processed: sent holds its events, previousAlarms the list
\* it compared against and lastKnownAlarms the list it received.
Processed == ticks > 0 /\ ~crashed

Positions(events, name) == {i \in DOMAIN events : events[i].name = name}

\* Number of events called `name` in `events` whose payload carries alarm `id`.
CountFor(events, name, id) ==
    Cardinality({i \in Positions(events, name) : events[i].payload.id = uuidString(id)})

PerAlarmNames == {"alarmAdded", "alarmRemoved", "alarmStateChanged", "alarmFired"}

IdsNamed(events, name) == {events[i].payload.id : i \in Positions(events, name)}

UuidsOf(list) == {uuidString(id) : id \in IdsOf(list)}

StateIn(list, id) == list[CHOOSE i \in DOMAIN list : list[i].id = id].state

ScheduledIn(list) == Cardinality({i \in DOMAIN list : list[i].state = ".scheduled"})

IsListChanged(e, total, scheduled) ==
    /\ e.name = "alarmListChanged"
    /\ e.payload.totalCount = total
    /\ e.payload.scheduledCount = scheduled

AddedExactlyForNew ==
    \A id \in Ids :
        CountFor(sent, "alarmAdded", id) =
            IF id \in IdsOf(lastKnownAlarms) \ IdsOf(previousAlarms) THEN 1 ELSE 0

OneScheduledNew ==
    /\ previousAlarms = <<>>
    /\ Len(lastKnownAlarms) = 1
    /\ lastKnownAlarms[1].state = ".scheduled"

RemovedExactlyForGone ==
    \A id \in Ids :
        IF id \in IdsOf(previousAlarms) \ IdsOf(lastKnownAlarms)
        THEN /\ CountFor(sent, "alarmRemoved", id) = 1
             /\ \A i \in Positions(sent, "alarmRemoved") :
                    sent[i].payload.id = uuidString(id) =>
                        sent[i].payload.lastState = describeState(StateIn(previousAlarms, id))
        ELSE CountFor(sent, "alarmRemoved", id) = 0

OneScheduledGone ==
    /\ lastKnownAlarms = <<>>
    /\ Len(previousAlarms) = 1
    /\ previousAlarms[1].state = ".scheduled"

C3_StateChangedIffStateDiffers ==
    Processed =>
        \A id \in IdsOf(previousAlarms) \cap IdsOf(lastKnownAlarms) :
            IF StateIn(previousAlarms, id) # StateIn(lastKnownAlarms, id)
            THEN /\ CountFor(sent, "alarmStateChanged", id) = 1
                 /\ \A i \in Positions(sent, "alarmStateChanged") :
                        sent[i].payload.id = uuidString(id) =>
                            /\ sent[i].payload.previousState =
                                   describeState(StateIn(previousAlarms, id))
                            /\ sent[i].payload.newState =
                                   describeState(StateIn(lastKnownAlarms, id))
            ELSE \A name \in PerAlarmNames : CountFor(sent, name, id) = 0

\* One alarm keeps its state and changes its schedule, another changes state.
C3_Witness ==
    /\ Processed
    /\ \E i \in DOMAIN previousAlarms, j \in DOMAIN lastKnownAlarms :
          /\ previousAlarms[i].id = lastKnownAlarms[j].id
          /\ previousAlarms[i].state = lastKnownAlarms[j].state
          /\ previousAlarms[i].schedule # lastKnownAlarms[j].schedule
    /\ Positions(sent, "alarmStateChanged") # {}

\* C4: a processed tick sends exactly one alarmListChanged; its totalCount is
\* the length of the current list and its scheduledCount the number of
\* scheduled alarms in it, also when the current list equals the previous one.
C4_OneListChangedPerTick ==
    Processed =>
        /\ Cardinality(Positions(sent, "alarmListChanged")) = 1
        /\ \A i \in Positions(sent, "alarmListChanged") :
               IsListChanged(sent[i], Len(lastKnownAlarms), ScheduledIn(lastKnownAlarms))

\* A tick whose list equals the previous one, with a running alarm in it.
C4_Witness ==
    /\ Processed
    /\ isObserving
    /\ previousAlarms = lastKnownAlarms
    /\ ScheduledIn(lastKnownAlarms) < Len(lastKnownAlarms)
    /\ Positions(sent, "alarmListChanged") = {1}

C6_SameListNoAlarmEvents ==
    (Processed /\ previousAlarms = lastKnownAlarms) =>
        /\ Len(sent) = 1
        /\ IsListChanged(sent[1], Len(lastKnownAlarms), ScheduledIn(lastKnownAlarms))

C6_Witness ==
    /\ Processed
    /\ previousAlarms = lastKnownAlarms
    /\ Len(lastKnownAlarms) = MaxId
    /\ Len(sent) = 1

\* C7: the ids of current are the ids of previous, less the ids of the
\* alarmRemoved events, plus the ids of the alarmAdded events.
C7_Conservation ==
    Processed =>
        UuidsOf(lastKnownAlarms) =
            (UuidsOf(previousAlarms) \ IdsNamed(sent, "alarmRemoved"))
                \cup IdsNamed(sent, "alarmAdded")

C7_Witness ==
    /\ Processed
    /\ IdsNamed(sent, "alarmRemoved") # {}
    /\ IdsNamed(sent, "alarmAdded") # {}

Count(events, e) == Cardinality({i \in DOMAIN events : events[i] = e})

SameEvents(a, b) ==
    /\ Len(a) = Len(b)
    /\ \A i \in DOMAIN a : Count(a, a[i]) = Count(b, a[i])

\* C8: the comparison never fails on two lists with unique ids (it has a
\* result for every such pair and the tick that runs it does not trap), and
\* every iteration order of the two dictionaries sends the same events, up to
\* the order of the per-alarm events; alarmListChanged is the same in all.
C8_TotalAndDeterministic ==
    /\ ticks = 0 =>
           LET results == detectStateChanges(lastKnownAlarms, alarms, clock)
           IN  /\ results # {}
               /\ \A a \in results : SameEvents(a, CHOOSE b \in results : TRUE)
    /\ ticks > 0 =>
           /\ ~crashed
           /\ sent[1] = ListChangedEvent(lastKnownAlarms, clock)

\* A tick on a pair of lists for which the iteration order shows in the output.
C8_Witness ==
    /\ Processed
    /\ Len(sent) >= 3
    /\ \E i, j \in DOMAIN sent :
          /\ i < j
          /\ sent[i].name = "alarmAdded" /\ sent[j].name = "alarmAdded"
          /\ sent[i].payload.id = uuidString(2) /\ sent[j].payload.id = uuidString(1)

\* C9: at most one sink subscription is live at any time, and a step taken
\* while observing makes no new subscription; while the session stays
\* observing the handle it holds is the same one.
C9_AtMostOneSubscription ==
    [][/\ Cardinality(sinks') <= 1
       /\ isObserving => sinkCalls' = sinkCalls
       /\ (isObserving /\ isObserving') => (alarmObserver' = alarmObserver /\ sinks' = sinks)
      ]_vars

\* startObserving was called again while observing: still the first subscription.
C9_Witness ==
    /\ isObserving
    /\ startCalls >= 2
    /\ sinkCalls = 1
    /\ sinks = {1}
    /\ alarmObserver = Some(1)

C12_AsStated ==
    [][~isObserving => (sent' = sent /\ ~(pc = "idle" /\ pc' # "idle"))]_vars

\* C13: while a tick has events left to send, lastKnownAlarms still holds the
\* list the tick compares against; the current list is stored only after the
\* last event.
C13_AsStated ==
    (isObserving /\ pc # "idle") => lastKnownAlarms = previousAlarms

\* C14: if the sending of a tick's events stops before the last one, the next
\* tick that receives the same list sends the same per-alarm events again:
\* wherever the tick stands, comparing lastKnownAlarms with its list gives the
\* events the tick is sending.
C14_AsStated ==
    (isObserving /\ pc # "idle" /\ ~HasDuplicateKeys(currentList))
        => detectStateChanges(lastKnownAlarms, currentList, clock)
               = detectStateChanges(previousAlarms, currentList, clock)

\* C15: when the call that reads the Authority's list fails, no event is
\* sent, lastKnownAlarms keeps its value, the session goes on observing and
\* the process goes on so that later ticks are handled.
C15_AsStated ==
    [][(isObserving /\ getAllScheduledAlarms(TRUE) /\ UNCHANGED session)
          => (sent' = sent /\ lastKnownAlarms' = lastKnownAlarms
              /\ isObserving' = isObserving /\ ~crashed')]_vars

\* C16: a tick whose list contains the same alarm id twice sends no event at
\* all (not even alarmListChanged), does not end the process and leaves the
\* session observing.
C16_AsStated ==
    (ticks > 0 /\ HasDuplicateKeys(lastKnownAlarms))
        => (sent = <<>> /\ ~crashed /\ isObserving)

\* The latest tick compared [X scheduled] with [X running].
ScheduledToRunning(id) ==
    /\ Len(previousAlarms) = 1 /\ previousAlarms[1].id = id
    /\ previousAlarms[1].state = ".scheduled"
    /\ Len(lastKnownAlarms) = 1 /\ lastKnownAlarms[1].id = id
    /\ lastKnownAlarms[1].state = ".running"

EntersRunning(e) == e.name = "alarmStateChanged" /\ e.payload.newState = "running"

\* alarmFired events and alarmStateChanged events with newState running come
\* in pairs for the same id, the alarmFired right after the alarmStateChanged.
FiredFollowsRunning ==
    /\ \A i \in DOMAIN sent :
          EntersRunning(sent[i])
              => /\ i < Len(sent)
                 /\ sent[i + 1].name = "alarmFired"
                 /\ sent[i + 1].payload.id = sent[i].payload.id
    /\ \A i \in DOMAIN sent :
          sent[i].name = "alarmFired"
              => /\ i > 1
                 /\ EntersRunning(sent[i - 1])
                 /\ sent[i - 1].payload.id = sent[i].payload.id

Observing == isObserving /\ ~crashed

\* C21: no error ends the observation: a session that is observing stays
\* observing in every step that is not a stopObserving call or the teardown
\* of the module.
C21_AsStated ==
    [][Observing => (Observing' \/ StopObserving \/ Deinit)]_vars

Latest(events) == events[Len(events)]

HasTimestamp(e) == "timestamp" \in DOMAIN e.payload

\* C22 as stated: every event sent carries a timestamp, which is the time at
\* which it is sent.
C22_AsStated ==
    [][Len(sent') > Len(sent)
          => (HasTimestamp(Latest(sent')) /\ Latest(sent').payload.timestamp = clock)]_vars

\* C22 amended: alarmListChanged and alarmStateChanged carry a timestamp,
\* which is the time at which they are sent; alarmFired carries the timestamp
\* of the alarmStateChanged sent just before it; alarmAdded and alarmRemoved
\* carry no timestamp.
C22_TimestampsOfThreeKinds ==
    [][Len(sent') > Len(sent)
          => LET e == Latest(sent')
             IN  CASE e.name \in {"alarmListChanged", "alarmStateChanged"}
                        -> HasTimestamp(e) /\ e.payload.timestamp = clock
                   [] e.name = "alarmFired"
                        -> /\ HasTimestamp(e)
                           /\ Latest(sent).name = "alarmStateChanged"
                           /\ e.payload.timestamp = Latest(sent).payload.timestamp
                   [] e.name \in {"alarmAdded", "alarmRemoved"}
                        -> ~HasTimestamp(e)]_vars

\* A tick that has sent an alarmAdded, and an alarmStateChanged after the
\* clock had advanced.
C22_Witness ==
    /\ pc = "idle" /\ ticks > 0
    /\ \E i \in DOMAIN sent : sent[i].name = "alarmAdded"
    /\ \E i \in DOMAIN sent : sent[i].name = "alarmFired" /\ sent[i].payload.timestamp > 0

\* C23 as stated: cancel and cancelAll take an alarm off the Authority's list
\* only when it is scheduled (or paused/countdown); a running or completed
\* alarm is never cancelled by them.
C23_AsStated ==
    [][\A i \in DOMAIN alarms :
          alarms[i].id \notin IdsOf(alarms') => alarms[i].state = ".scheduled"]_vars

\* C24 as stated: the number cancelAll resolves with is the number of alarms
\* its call has taken off the Authority's list, also when single cancels fail.
C24_AsStated ==
    [][("count" \in DOMAIN promise' /\ (promise' # promise \/ alarms' # alarms))
          => promise'.count = Len(alarms) - Len(alarms')]_vars

\* The alarm of `list` with id `id` is gone and the others are as they were.
OnlyRemoved(list, after, id) == after = SelectSeq(list, LAMBDA a : a.id # id)

\* C25: a cancel(alarmId) whose alarmId is not a valid id string, or names no
\* alarm of the Authority's list, is rejected and leaves the list as it was;
\* one that names a listed alarm and resolves has taken exactly that alarm
\* off the list.
C25_CancelOneOrFail ==
    [][\A alarmId \in AlarmIdStrings :
          Cancel(alarmId) =>
              /\ (UUIDFrom(alarmId) = Nil \/ alarmId[2] \notin IdsOf(alarms))
                     => (promise'.state = "rejected" /\ alarms' = alarms)
              /\ promise'.state = "rejected" => alarms' = alarms
              /\ promise'.state = "resolved"
                     => /\ UUIDFrom(alarmId) # Nil
                        /\ alarmId[2] \in IdsOf(alarms)
                        /\ alarmId[2] \notin IdsOf(alarms')
                        /\ Len(alarms') = Len(alarms) - 1
                        /\ \A i \in DOMAIN alarms :
                              alarms[i].id # alarmId[2]
                                  => \E j \in DOMAIN alarms' : alarms'[j] = alarms[i]]_vars

\* A cancel has resolved and has left the other alarm on the list.
C25_Witness ==
    /\ promise = Resolved(Nil)
    /\ Len(alarms) = 1

\* Call c of the wrapper resolves in this step.
Resolves(c) == calls[c].at # "resolved" /\ calls'[c].at = "resolved"

\* C26: when a call of the wrapper's startObserving resolves the native
\* session is observing, and when a call of its stopObserving resolves the
\* native session is not observing, however the calls overlap.
C26_AsStated ==
    [][\A c \in 1..MaxCalls :
          Resolves(c) => (isObserving' = (calls'[c].op = "start"))]_vars

\* Events("alarmStateChanged", "alarmListChanged", "alarmFired"): the names the
\* native module declares for sendEvent.
DeclaredEvents == {"alarmStateChanged", "alarmListChanged", "alarmFired"}

\* C27: calls of handleAlarmListChanged never overlap: while one call is
\* between its first and its last statement no other call has begun, so a call
\* compares against the list the previously completed call stored.
C27_AsStated == pc = "idle" \/ parked.pc = "idle"

\* C28: every event the module hands to sendEvent has a name the module
\* declares in Events(...), so a listener can be registered for each kind sent.
C28_AsStated == \A i \in DOMAIN sent : sent[i].name \in DeclaredEvents

\* The alarmAdded, alarmRemoved and alarmStateChanged events in `events` that
\* carry alarm `id`.
AboutAlarm(events, id) ==
    CountFor(events, "alarmAdded", id) + CountFor(events, "alarmRemoved", id)
        + CountFor(events, "alarmStateChanged", id)

\* C29: in the events of one tick an alarm id is carried by at most one of the
\* alarmAdded, alarmRemoved and alarmStateChanged events: never two kinds for
\* one id, never one kind twice.
C29_OnePerAlarmEvent ==
    Processed => \A id \in Ids : AboutAlarm(sent, id) <= 1

\* A tick that reports one id removed and another one added or changed.
C29_Witness ==
    /\ Processed
    /\ \E id, other \in Ids :
          /\ id # other
          /\ CountFor(sent, "alarmRemoved", id) = 1
          /\ CountFor(sent, "alarmAdded", other) + CountFor(sent, "alarmStateChanged", other) = 1

\* The ids announced by an alarmAdded, not taken back by an alarmRemoved, and
\* absent from lastKnownAlarms.
Forgotten == announced \ UuidsOf(lastKnownAlarms)

NewRunning ==
    {id \in IdsOf(lastKnownAlarms) \ IdsOf(previousAlarms) :
         StateIn(lastKnownAlarms, id) = ".running"}

\* C31: an alarm whose id is not in the previous list and that is running in
\* the list received gets one alarmAdded in that tick, and neither an
\* alarmStateChanged nor an alarmFired.
C31_NewRunningIsAddedOnly ==
    Processed =>
        \A id \in NewRunning :
            /\ CountFor(sent, "alarmAdded", id) = 1
            /\ CountFor(sent, "alarmStateChanged", id) = 0
            /\ CountFor(sent, "alarmFired", id) = 0

\* A tick whose list holds a running alarm it had not seen; another alarm
\* goes from scheduled to running in the same tick and is reported fired.
C31_Witness ==
    /\ Processed
    /\ NewRunning # {}
    /\ \E other \in Ids : CountFor(sent, "alarmFired", other) = 1

\* C32: isObserving is true exactly when alarmObserver holds a subscription,
\* and when isObserving is false and no handleAlarmListChanged call is running
\* lastKnownAlarms is empty.
C32_AsStated ==
    /\ isObserving <=> alarmObserver # Nil
    /\ (~isObserving /\ pc = "idle" /\ parked.pc = "idle") => lastKnownAlarms = <<>>

Held == listeners["alarmStateChanged"] + listeners["alarmListChanged"]
            + listeners["alarmFired"] + listeners["alarmAdded"] + listeners["alarmRemoved"]

\* C34: the hook holds listeners only while it is mounted with isObserving
\* true, the listeners held are those of the latest run of the first effect
\* (every earlier run's listeners have been removed), and they are never more
\* than three: at most one each for alarmStateChanged, alarmListChanged and
\* alarmFired.
C34_ListenersOfTheHook ==
    /\ Held > 0 => (hook.mounted /\ hook.isObserving)
    /\ listeners = PushEach(NoListeners, hook.subscriptions)
    /\ Held <= 3
    /\ \A name \in ListenerNames :
           listeners[name] <= (IF name \in {"alarmStateChanged", "alarmListChanged", "alarmFired"}
                               THEN 1 ELSE 0)

\* The first effect has registered its three listeners.
C34_Witness ==
    /\ hook.mounted /\ hook.isObserving
    /\ Held = 3

\* A call of startObserving or stopObserving that has not settled.
Pending(c) == calls[c].at \in {"native", "await"} \/ c \in hook.callbacks

\* C35: once the component is unmounted and no startObserving or stopObserving
\* call is pending, the native module is not observing.
C35_AsStated ==
    (~hook.mounted /\ \A c \in 1..MaxCalls : ~Pending(c)) => ~isObserving

\* The list of the Authority has been processed: it is the list stored, and
\* every alarm in it has been sent in an alarmAdded.
CaughtUp ==
    /\ lastKnownAlarms = alarms
    /\ UuidsOf(alarms) \subseteq announced

C38_AsStated ==
    [][ScheduleOneOffAsync =>
          /\ \/ alarms' = alarms
             \/ \E id \in Ids \ IdsOf(alarms) :
                   /\ IdsOf(alarms') = IdsOf(alarms) \cup {id}
                   /\ StateIn(alarms', id) = ".scheduled"
                   /\ SelectSeq(alarms', LAMBDA a : a.id # id) = alarms
          /\ promise'.state = "resolved" => Len(alarms') = Len(alarms) + 1]_vars

====
